---- MODULE Spec2Model ----
(***************************************************************************)
(* serialpcap-rs: capture of a serial byte stream into pcap packets.       *)
(*                                                                         *)
(* Spec       the capture loop (main.rs, CaptureSerial::capture) driving   *)
(*            the frame assembler (CaptureSerial::capture_packet) over a   *)
(*            scripted serial port, writing to the pcap sink.              *)
(* SpecCodec  the encapsulation codec (datalink.rs) applied to events      *)
(*            drawn from bounded sets.                                     *)
(***************************************************************************)
EXTENDS Integers, Sequences, FiniteSets, TLC

(***************************************************************************)
(* Program constants and model bounds                                      *)
(***************************************************************************)
MAX_PACKET_SIZE == 1024

\* longest short burst of a script, in bytes
MaxShort == 3
\* a long burst exceeds one or two full frames by 0..MaxOver bytes
MaxOver == 2
\* a read that returns less than it has room and data for returns 1..MaxChunk
\* bytes, or all but 1..MaxChunk bytes
MaxChunk == 2
\* at most MaxShortReads reads of a run return less than they could
MaxShortReads == 2
\* longest payload of an event handed to the codec on its own
MaxPayload == 2

VARIABLES
    port,        \* what the serial line still has to deliver, in time order
    lines,       \* the port's control lines as the hardware holds them
    buffer,      \* capture_packet: buffer
    bytes_read,  \* capture_packet: bytes_read
    events,      \* every packet capture_packet has returned, in order
    sink,        \* packets handed to PcapWriter::write_packet, in order
    last_lines,  \* control lines at the time of the last sink write
    short_reads, \* reads so far that returned less than they had room and data for
    pc,          \* "read" | "stopped" (capture returned) | "panicked" | "codec" | "port"
    result,      \* what capture returned: "none" so far, or the io::ErrorKind of its Err
    config,      \* [encap_mode, datalink] of the session
    script,      \* the port's initial content (never changes)
    cev,         \* codec: the event to encode
    cout,        \* codec: result of get_encapsulated_data
    dest,        \* the port control lines are reflected onto: its fields and pins
    ret,         \* the last call on dest and what it returned
    arg,         \* the lines argument of the last reflect_control_lines
    log,         \* the line reads and writes the last call on dest issued to the hardware, in order
    ops          \* number of calls made on dest

vars == <<port, lines, buffer, bytes_read, events, sink, last_lines,
          short_reads, pc, result, config, script,
          cev, cout, dest, ret, arg, log, ops>>

portvars == <<dest, ret, arg, log, ops>>

(***************************************************************************)
(* portinfo.rs: PortControlLines                                           *)
(***************************************************************************)
PortControlLines ==
    [dsr : BOOLEAN, cts : BOOLEAN, cd : BOOLEAN, ri : BOOLEAN,
     dtr : BOOLEAN, rts : BOOLEAN]

PortControlLinesNew ==
    [dsr |-> FALSE, cts |-> FALSE, cd |-> FALSE, ri |-> FALSE,
     dtr |-> FALSE, rts |-> FALSE]

(***************************************************************************)
(* The serial line.  A script is a sequence of segments in time order:     *)
(*   data   len bytes arriving back to back (no idle gap inside); the byte *)
(*          at stream offset k is ByteAt(k)                                *)
(*   gap    the line stays idle longer than the port timeout               *)
(*   zero   a read that returns Ok(0)                                      *)
(*   err    a read that fails with the given io::ErrorKind; a gap is the   *)
(*          read failing with TimedOut                                     *)
(*   lines  the control lines change to the given state                    *)
(***************************************************************************)
ByteAt(k) == (65 + k) % 251

Segment(kind, start, len, l, e) ==
    [kind |-> kind, start |-> start, len |-> len, lines |-> l, error |-> e]

Data(start, len) == Segment("data", start, len, PortControlLinesNew, "none")
Gap      == Segment("gap", 0, 0, PortControlLinesNew, "TimedOut")
Zero     == Segment("zero", 0, 0, PortControlLinesNew, "none")
Err(e)   == Segment("err", 0, 0, PortControlLinesNew, e)
Lines(l) == Segment("lines", 0, 0, l, "none")

\* io::ErrorKind values a failing read reports besides TimedOut
ErrorKinds == { "BrokenPipe", "PermissionDenied" }

Bytes(start, len) == [i \in 1..len |-> ByteAt(start + i - 1)]

SomeLines ==
    { [PortControlLinesNew EXCEPT !.cts = TRUE],
      [PortControlLinesNew EXCEPT !.cts = TRUE, !.rts = TRUE] }

ShortScripts ==
    { <<Data(0, a), Gap, Data(a, b), Gap, Gap>> : a \in 1..MaxShort, b \in 1..MaxShort }

LongScripts ==
    { <<Data(0, k * MAX_PACKET_SIZE + d), Gap>> : k \in 1..2, d \in 0..MaxOver }
    \cup { <<Data(0, MAX_PACKET_SIZE - 1), Gap, Data(MAX_PACKET_SIZE - 1, 1), Gap>> }

ErrScripts ==
    { <<Data(0, a), Err(e), Data(a, b), Gap>> :
          a \in 1..MaxShort, b \in 1..MaxShort, e \in ErrorKinds }
    \cup { <<Data(0, a), Gap, Err(e), Data(a, 1), Gap>> : a \in 1..MaxShort, e \in ErrorKinds }
    \cup { <<Err(e), Data(0, 1), Gap>> : e \in ErrorKinds }

ZeroScripts ==
    { <<Data(0, a), Zero, Data(a, b), Gap>> : a \in 1..MaxShort, b \in 1..MaxShort }
    \cup { <<Zero, Gap, Data(0, 1), Gap>> }

LineScripts ==
    { <<Lines(l), Gap, Data(0, a), Gap, Gap>> : l \in SomeLines, a \in 1..MaxShort }
    \cup { <<Data(0, a), Gap, Lines(l), Gap, Lines(PortControlLinesNew), Gap>> :
              l \in SomeLines, a \in 1..MaxShort }

Scripts == ShortScripts \cup LongScripts \cup ErrScripts \cup ZeroScripts \cup LineScripts

(***************************************************************************)
(* state.rs: SerialEvent.  A timestamp (DateTime<Utc>) is kept as its      *)
(* whole seconds since the epoch and the microseconds within the second:   *)
(* the codec reads nothing finer, and the microseconds since the epoch do  *)
(* not fit the model checker's integers.                                   *)
(***************************************************************************)
DateTime(secs, usec) == [secs |-> secs, usec |-> usec]

SerialEvent(timestamp, data, control_lines) ==
    [timestamp |-> timestamp, data |-> data, control_lines |-> control_lines]

is_insignificant(event, line_status) ==
    event.data = <<>> /\ event.control_lines = line_status

(***************************************************************************)
(* datalink.rs: the encapsulation codec                                    *)
(***************************************************************************)
UserDataLinks ==
    { "USER0", "USER1", "USER2", "USER3", "USER4", "USER5", "USER6", "USER7",
      "USER8", "USER9", "USER10", "USER11", "USER12", "USER13", "USER14",
      "USER15" }

\* link types pcap_file knows and datalink.rs has no codec for
OtherDataLinks == { "ETHERNET", "NULL" }

DataLinks == UserDataLinks \cup { "RAW", "RTAC_SERIAL" } \cup OtherDataLinks

\* i64::to_le_bytes, low byte first: the first n bytes of the two's complement
\* of x
RECURSIVE to_le_bytes(_, _)
to_le_bytes(x, n) ==
    IF n = 0 THEN <<>> ELSE <<x % 256>> \o to_le_bytes(x \div 256, n - 1)

\* DateTime::timestamp: whole seconds since the epoch
timestamp(ts) == ts.secs

\* DateTime::timestamp_micros().to_le_bytes(): the microseconds since the epoch,
\* secs * 1000000 + usec, as the first n bytes of an i64.  The product is formed
\* byte by byte on the bytes of secs, carrying into the next byte.
RECURSIVE mul_add_bytes(_, _, _)
mul_add_bytes(bytes, factor, carry) ==
    IF bytes = <<>> THEN <<>>
    ELSE LET v == Head(bytes) * factor + carry
         IN  <<v % 256>> \o mul_add_bytes(Tail(bytes), factor, v \div 256)

timestamp_micros_bytes(ts) ==
    mul_add_bytes(to_le_bytes(ts.secs, 8), 1000000, ts.usec)

\* mutant: the CD and DSR bits change places
control_flags_swapped(cl) ==
      (IF cl.cts THEN 1 ELSE 0)
    + (IF cl.dsr THEN 2 ELSE 0)
    + (IF cl.cd  THEN 4 ELSE 0)
    + (IF cl.rts THEN 8 ELSE 0)
    + (IF cl.dtr THEN 16 ELSE 0)
    + (IF cl.ri  THEN 32 ELSE 0)

control_flags(cl) ==
      (IF cl.cts THEN 1 ELSE 0)
    + (IF cl.cd  THEN 2 ELSE 0)
    + (IF cl.dsr THEN 4 ELSE 0)
    + (IF cl.rts THEN 8 ELSE 0)
    + (IF cl.dtr THEN 16 ELSE 0)
    + (IF cl.ri  THEN 32 ELSE 0)

\* mutant: a one-byte length is put in front of the data
raw_encapsulate_framed(data) == <<Len(data)>> \o data

raw_encapsulate(data) == data

\* mutant: the reserved field is one byte, not two
rtac_encapsulate_short(new_state, bus_name) ==
       SubSeq(to_le_bytes(timestamp(new_state.timestamp), 8), 1, 4)
    \o SubSeq(timestamp_micros_bytes(new_state.timestamp), 1, 4)
    \o <<1>>
    \o <<control_flags(new_state.control_lines)>>
    \o <<0>>
    \o new_state.data

rtac_encapsulate(new_state, bus_name) ==
       SubSeq(to_le_bytes(timestamp(new_state.timestamp), 8), 1, 4)
    \o SubSeq(timestamp_micros_bytes(new_state.timestamp), 1, 4)
    \o <<1>>
    \o <<control_flags(new_state.control_lines)>>
    \o <<0, 0>>
    \o new_state.data

\* Result<Vec<u8>, String>
Ok(data)  == [ok |-> TRUE,  data |-> data, err |-> <<>>]
Error(e)  == [ok |-> FALSE, data |-> <<>>, err |-> e]

\* mutant: a link type without a codec falls back to the null encapsulation
get_encapsulated_data_fallback(new_state, bus_name, datalink) ==
    IF datalink = "RTAC_SERIAL"
    THEN Ok(rtac_encapsulate(new_state, bus_name))
    ELSE Ok(raw_encapsulate(new_state.data))

get_encapsulated_data(new_state, bus_name, datalink) ==
    IF datalink \in UserDataLinks \cup { "RAW" }
    THEN Ok(raw_encapsulate(new_state.data))
    ELSE IF datalink = "RTAC_SERIAL"
    THEN Ok(rtac_encapsulate(new_state, bus_name))
    ELSE Error(<<"Unsupported datalink type: ", datalink>>)

(***************************************************************************)
(* main.rs: CaptureSerial::capture_packet                                  *)
(***************************************************************************)
\* mutant: the buffer is one byte larger than the frame size
NewBufferOversize == [i \in 1..(MAX_PACKET_SIZE + 1) |-> 0]

\* vec![0; MAX_PACKET_SIZE]
NewBuffer == [i \in 1..MAX_PACKET_SIZE |-> 0]

Min(a, b) == IF a <= b THEN a ELSE b

\* the sizes a read into a slice with `room` free bytes may return while `len`
\* bytes of the burst are still to come
ShortSizes(room, len) ==
    { n \in 1..(Min(room, len) - 1) : n <= MaxChunk \/ n >= Min(room, len) - MaxChunk }

ReadSizes(room, len, short) ==
    { Min(room, len) } \cup (IF short THEN ShortSizes(room, len) ELSE {})

\* mutant: the read stores at the start of the buffer, not after the bytes held
ReadIntoFront(buf, at, start, n) ==
    [i \in 1..Len(buf) |-> IF i <= n THEN ByteAt(start + i - 1) ELSE buf[i]]

\* port.read(&mut buffer[bytes_read..]) storing the next n bytes of the stream
ReadInto(buf, at, start, n) ==
    [i \in 1..Len(buf) |->
        IF at < i /\ i <= at + n THEN ByteAt(start + (i - at) - 1) ELSE buf[i]]

\* mutant: the frame is closed one byte early
KeepReadingEarly(n, buf) == n + 1 < Len(buf)

\* the loop condition after Ok(this_read_len)
KeepReading(n, buf) == n < Len(buf)

\* the value capture_packet returns
Packet(buf, n) == IF n = 0 THEN <<>> ELSE SubSeq(buf, 1, n)

\* the port with n bytes taken from its head segment
Advance(p, n) ==
    IF n = Head(p).len THEN Tail(p)
    ELSE <<Data(Head(p).start + n, Head(p).len - n)>> \o Tail(p)

(***************************************************************************)
(* main.rs: CaptureSerial::capture, one pass of the loop body once         *)
(* capture_packet has returned Ok(packet).                                 *)
(*                                                                         *)
(* The call at main.rs:157 hands get_encapsulated_data a time and the      *)
(* packet but no control lines, though datalink.rs:88 takes a SerialEvent: *)
(* the event encoded carries the time of the call, the packet, and control *)
(* lines that are either unset (PortControlLines::new) or those of the     *)
(* port.  The sink (an external file writer) accepts every write and the   *)
(* clock is not set back behind the start of the session, so neither       *)
(* unwrap of main.rs:160-168 panics; the capture time of a sink packet is  *)
(* not kept.                                                               *)
(***************************************************************************)
\* values of Utc::now() at the moment a packet is encapsulated
Clock == { DateTime(1762000000, 123456), DateTime(1762000001, 7) }

\* mutant: the emptiness test is gone
SkippedNever(packet) == FALSE

\* `if packet.is_empty() { continue; }`
Skipped(packet) == packet = <<>>

\* mutant: the two encapsulation modes are taken for each other
EncapsulateSwapped(cfg, event) ==
    IF cfg.encap_mode # "Raw" THEN [ok |-> TRUE, data |-> event.data, err |-> <<>>]
    ELSE get_encapsulated_data(event, "serial", cfg.datalink)

\* `match self.encap_mode { ... }`
Encapsulate(cfg, event) ==
    IF cfg.encap_mode = "Raw" THEN Ok(event.data)
    ELSE get_encapsulated_data(event, "serial", cfg.datalink)

\* PcapPacket { orig_len, data }
\* the header capture opens the sink with
PcapHeader(cfg) == [snaplen |-> MAX_PACKET_SIZE, datalink |-> cfg.datalink]

PcapPacket(data) == [orig_len |-> Len(data), data |-> data]

\* mutant: the count of the packet before is carried into the next call
NewBytesReadStale == bytes_read

\* `let mut bytes_read = 0;`
NewBytesRead == 0

Deliver(packet) ==
    /\ events' = Append(events, packet)
    /\ buffer' = NewBuffer
    /\ bytes_read' = NewBytesRead
    /\ IF Skipped(packet)
       THEN UNCHANGED <<sink, last_lines, pc>>
       ELSE \E now \in Clock, cl \in { PortControlLinesNew, lines } :
               LET r == Encapsulate(config, SerialEvent(now, packet, cl))
               IN  IF r.ok
                   THEN /\ sink' = Append(sink, PcapPacket(r.data))
                        /\ last_lines' = lines
                        /\ UNCHANGED pc
                   ELSE /\ pc' = "panicked"
                        /\ UNCHANGED <<sink, last_lines>>

\* mutant: every failing read is taken for a timeout
TimedOutAny(e) == TRUE

\* `e.kind() == io::ErrorKind::TimedOut`
TimedOut(e) == e = "TimedOut"

\* Ok(this_read_len) with this_read_len > 0
ReadBytes ==
    /\ pc = "read"
    /\ port # <<>>
    /\ Head(port).kind = "data"
    /\ \E n \in ReadSizes(Len(buffer) - bytes_read, Head(port).len,
                          short_reads < MaxShortReads) :
          LET buf == ReadInto(buffer, bytes_read, Head(port).start, n)
              got == bytes_read + n
          IN  /\ port' = Advance(port, n)
              /\ short_reads' =
                    IF n < Min(Len(buffer) - bytes_read, Head(port).len)
                    THEN short_reads + 1 ELSE short_reads
              /\ IF KeepReading(got, buf)
                 THEN /\ buffer' = buf
                      /\ bytes_read' = got
                      /\ UNCHANGED <<events, sink, last_lines, pc>>
                 ELSE Deliver(Packet(buf, got))
    /\ UNCHANGED <<lines, result, config, script, cev, cout>>
    /\ UNCHANGED portvars

\* Ok(0)
ReadZero ==
    /\ pc = "read"
    /\ port # <<>>
    /\ Head(port).kind = "zero"
    /\ port' = Tail(port)
    /\ IF KeepReading(bytes_read, buffer)
       THEN UNCHANGED <<buffer, bytes_read, events, sink, last_lines, pc>>
       ELSE Deliver(Packet(buffer, bytes_read))
    /\ UNCHANGED <<lines, short_reads, result, config, script, cev, cout>>
    /\ UNCHANGED portvars

\* Err(e) taken as the end of a packet
ReadTimeout ==
    /\ pc = "read"
    /\ port # <<>>
    /\ Head(port).kind \in { "gap", "err" }
    /\ TimedOut(Head(port).error)
    /\ port' = Tail(port)
    /\ Deliver(Packet(buffer, bytes_read))
    /\ UNCHANGED <<lines, short_reads, result, config, script, cev, cout>>
    /\ UNCHANGED portvars

\* Err(e) of any other kind: capture_packet returns Err(e) and capture returns
\* it in turn.  The buffer is dropped with the call; the model leaves it as it was.
ReadError ==
    /\ pc = "read"
    /\ port # <<>>
    /\ Head(port).kind \in { "gap", "err" }
    /\ ~TimedOut(Head(port).error)
    /\ port' = Tail(port)
    /\ pc' = "stopped"
    /\ result' = Head(port).error
    /\ UNCHANGED <<buffer, bytes_read, events, sink, last_lines>>
    /\ UNCHANGED <<lines, short_reads, config, script, cev, cout>>
    /\ UNCHANGED portvars

\* the far end changes the control lines
LineChange ==
    /\ pc = "read"
    /\ port # <<>>
    /\ Head(port).kind = "lines"
    /\ port' = Tail(port)
    /\ lines' = Head(port).lines
    /\ UNCHANGED <<buffer, bytes_read, events, sink, last_lines, pc>>
    /\ UNCHANGED <<short_reads, result, config, script, cev, cout>>
    /\ UNCHANGED portvars

Configs ==
    { [encap_mode |-> "Raw",          datalink |-> "RTAC_SERIAL"],
      [encap_mode |-> "DatalinkType", datalink |-> "USER0"],
      [encap_mode |-> "DatalinkType", datalink |-> "RTAC_SERIAL"],
      [encap_mode |-> "DatalinkType", datalink |-> "ETHERNET"] }

NoEvent == SerialEvent(DateTime(0, 0), <<>>, PortControlLinesNew)
NoOutput == Error(<<>>)

\* no port to reflect onto has been opened
NoPortCall ==
    /\ dest = <<>>
    /\ ret = <<>>
    /\ arg = PortControlLinesNew
    /\ log = <<>>
    /\ ops = 0

Init ==
    /\ script \in Scripts
    /\ port = script
    /\ config \in Configs
    /\ lines = PortControlLinesNew
    /\ last_lines = PortControlLinesNew
    /\ buffer = NewBuffer
    /\ bytes_read = 0
    /\ short_reads = 0
    /\ events = <<>>
    /\ sink = <<>>
    /\ pc = "read"
    /\ result = "none"
    /\ cev = NoEvent
    /\ cout = NoOutput
    /\ NoPortCall

Next == ReadBytes \/ ReadZero \/ ReadTimeout \/ ReadError \/ LineChange

Spec == Init /\ [][Next]_vars

(***************************************************************************)
(* SpecCodec: get_encapsulated_data applied once to an event drawn from    *)
(* bounded sets.                                                           *)
(***************************************************************************)
PayloadBytes == { 0, 255 }

Payloads == UNION { [1..n -> PayloadBytes] : n \in 0..MaxPayload }

CodecTimes ==
    { DateTime(0, 0), DateTime(1, 999999), DateTime(1762000000, 123456),
      DateTime(2147483647, 500000) }

CodecEvents ==
    { SerialEvent(t, d, cl) : t \in CodecTimes, d \in Payloads, cl \in PortControlLines }

InitCodec ==
    /\ cev \in CodecEvents
    /\ config \in { [encap_mode |-> "DatalinkType", datalink |-> d] : d \in DataLinks }
    /\ cout = NoOutput
    /\ pc = "codec"
    /\ result = "none"
    /\ script = <<>>
    /\ port = <<>>
    /\ lines = PortControlLinesNew
    /\ last_lines = PortControlLinesNew
    /\ buffer = <<>>
    /\ bytes_read = 0
    /\ short_reads = 0
    /\ events = <<>>
    /\ sink = <<>>
    /\ NoPortCall

Encode ==
    /\ pc = "codec"
    /\ cout' = get_encapsulated_data(cev, "serial", config.datalink)
    /\ pc' = "encoded"
    /\ UNCHANGED <<port, lines, buffer, bytes_read, events, sink, last_lines,
                   short_reads, result, config, script, cev>>
    /\ UNCHANGED portvars

NextCodec == Encode

SpecCodec == InitCodec /\ [][NextCodec]_vars

(***************************************************************************)
(* portinfo.rs: the port control lines are reflected onto.                 *)
(*                                                                         *)
(* dest is either a SerialReflectorPort over a plain serial port ("Basic") *)
(* or a SerialPortWrapper ("Wrapper"), which reflects through the impl of  *)
(* SerialReflection for every SerialPort + AdvancedSerialPort.  rts and    *)
(* dtr are the levels of the UART's two output pins, ri_out_gpio and       *)
(* cd_out_gpio the two optional GPIO pins with their level.  A write that  *)
(* the driver reports as failed leaves the pin as it was.                  *)
(***************************************************************************)
None == <<>>
Some(x) == <<x>>

\* serialport::Result<T>
POk(v)    == [ok |-> TRUE,  value |-> v]
PErr(msg) == [ok |-> FALSE, value |-> msg]

Unit == "()"

\* one write issued to the UART driver or to a GPIO pin
Wr(line, level, ok) == [line |-> line, level |-> level, ok |-> ok]

\* what a call leaves behind: the port, the returned value, the writes issued
Out(p, res, l) == [port |-> p, res |-> res, log |-> l]

MaxOps == 2

OutputLines == {"dtr", "rts", "ri", "cd"}

SerialReflectorPortNew ==
    [kind |-> "Basic", rts |-> None, dtr |-> None,
     ri_out_gpio |-> None, cd_out_gpio |-> None,
     last_set_rts |-> None, last_set_dtr |-> None]

SerialPortWrapperNew(ri_out_gpio, cd_out_gpio) ==
    [kind |-> "Wrapper", rts |-> None, dtr |-> None,
     ri_out_gpio |-> ri_out_gpio, cd_out_gpio |-> cd_out_gpio,
     last_set_rts |-> None, last_set_dtr |-> None]

Ports ==
    {SerialReflectorPortNew}
    \cup { SerialPortWrapperNew(ri, cd) : ri \in {None, Some("Unset")},
                                          cd \in {None, Some("Unset")} }

GpioValue(level) == IF level THEN "High" ELSE "Low"

\* mutant: the level is recorded before the driver's answer is known
write_request_to_send_eager(p, level, fails) ==
    IF fails
    THEN Out([p EXCEPT !.last_set_rts = IF p.kind = "Wrapper" THEN Some(level) ELSE @],
             PErr("io"), <<Wr("rts", level, FALSE)>>)
    ELSE Out([p EXCEPT !.rts = Some(level),
                       !.last_set_rts = IF p.kind = "Wrapper" THEN Some(level) ELSE @],
             POk(Unit), <<Wr("rts", level, TRUE)>>)

write_request_to_send(p, level, fails) ==
    IF fails
    THEN Out(p, PErr("io"), <<Wr("rts", level, FALSE)>>)
    ELSE Out([p EXCEPT !.rts = Some(level),
                       !.last_set_rts = IF p.kind = "Wrapper" THEN Some(level) ELSE @],
             POk(Unit), <<Wr("rts", level, TRUE)>>)

write_data_terminal_ready(p, level, fails) ==
    IF fails
    THEN Out(p, PErr("io"), <<Wr("dtr", level, FALSE)>>)
    ELSE Out([p EXCEPT !.dtr = Some(level),
                       !.last_set_dtr = IF p.kind = "Wrapper" THEN Some(level) ELSE @],
             POk(Unit), <<Wr("dtr", level, TRUE)>>)

can_set_ring_indicator(p) == p.ri_out_gpio # None

can_set_carrier_detect(p) == p.cd_out_gpio # None

read_request_to_send(p) ==
    IF p.last_set_dtr # None
    THEN POk(p.last_set_dtr[1])
    ELSE PErr("Unknown value in Request To Send")

read_data_terminal_ready(p) ==
    IF p.last_set_rts # None
    THEN POk(p.last_set_rts[1])
    ELSE PErr("Unknown value in Data Terminal Ready")

set_ring_indicator(p, level, fails) ==
    IF p.ri_out_gpio # None
    THEN IF fails
         THEN Out(p, PErr("Failed to set Ring Indicator"), <<Wr("ri", level, FALSE)>>)
         ELSE Out([p EXCEPT !.ri_out_gpio = Some(GpioValue(level))],
                  POk(Unit), <<Wr("ri", level, TRUE)>>)
    ELSE Out(p, PErr("Ring Indicator output not supported"), <<>>)

set_carrier_detect(p, level, fails) ==
    IF p.cd_out_gpio # None
    THEN IF fails
         THEN Out(p, PErr("Failed to set Carrier Detect"), <<Wr("cd", level, FALSE)>>)
         ELSE Out([p EXCEPT !.cd_out_gpio = Some(GpioValue(level))],
                  POk(Unit), <<Wr("cd", level, TRUE)>>)
    ELSE Out(p, PErr("Carrier Detect output not supported"), <<>>)

\* one read of an input line issued to the UART driver
Rd(line, level, ok) == [line |-> line, level |-> level, ok |-> ok]

InputLines == {"dsr", "cts", "cd", "ri"}

\* levels the far end holds the four input lines at
InputLevels ==
    { l \in [InputLines -> BOOLEAN] : l["dsr"] = l["cd"] /\ l["cts"] = l["ri"] }

\* the order the fields of the snapshot are read in
CaptureOrder == <<"dsr", "cts", "cd", "ri">>

unwrap_or(r, default) == IF r.ok THEN r.value ELSE default

\* T::read_data_set_ready and the like: Ok(level), or Err for a line in fail
read_input_line(line, levels, fail) ==
    IF line \in fail THEN PErr("io") ELSE POk(levels[line])

ReadsUpTo(n, levels, fail) ==
    [i \in 1..n |-> Rd(CaptureOrder[i], levels[CaptureOrder[i]], CaptureOrder[i] \notin fail)]

\* SerialReflectorPort<T>::capture_control_lines: each read is followed by `?`
reflector_capture_control_lines(p, levels, fail) ==
    LET failing == { i \in 1..Len(CaptureOrder) : CaptureOrder[i] \in fail }
    IN  IF failing # {}
        THEN LET first == CHOOSE i \in failing : \A j \in failing : i <= j
             IN  Out(p, read_input_line(CaptureOrder[first], levels, fail),
                     ReadsUpTo(first, levels, fail))
        ELSE Out(p,
                 POk([dsr |-> levels["dsr"], cts |-> levels["cts"],
                      cd  |-> levels["cd"],  ri  |-> levels["ri"],
                      dtr |-> FALSE, rts |-> FALSE]),
                 ReadsUpTo(Len(CaptureOrder), levels, fail))

\* mutant: DTR is driven from cts and RTS from dsr
reflector_reflect_control_lines_crossed(p, snapshot, fail) ==
    LET a == write_data_terminal_ready(p, snapshot.cts, "dtr" \in fail)
    IN  IF ~a.res.ok
        THEN a
        ELSE LET b == write_request_to_send(a.port, snapshot.dsr, "rts" \in fail)
             IN  Out(b.port, b.res, a.log \o b.log)

\* mutant: the result of the DTR write is dropped
reflector_reflect_control_lines_unchecked(p, snapshot, fail) ==
    LET a == write_data_terminal_ready(p, snapshot.dsr, "dtr" \in fail)
        b == write_request_to_send(a.port, snapshot.cts, "rts" \in fail)
    IN  Out(b.port, b.res, a.log \o b.log)

\* SerialReflectorPort<T>::reflect_control_lines; fail: the writes the driver refuses
reflector_reflect_control_lines(p, snapshot, fail) ==
    LET a == write_data_terminal_ready(p, snapshot.dsr, "dtr" \in fail)
    IN  IF ~a.res.ok
        THEN a
        ELSE LET b == write_request_to_send(a.port, snapshot.cts, "rts" \in fail)
             IN  Out(b.port, b.res, a.log \o b.log)

\* impl SerialReflection for T: SerialPort + AdvancedSerialPort
reflect_control_lines(p, snapshot, fail) ==
    LET a == reflector_reflect_control_lines(p, snapshot, fail)
    IN  IF ~a.res.ok
        THEN a
        ELSE
        LET b == IF can_set_ring_indicator(a.port)
                 THEN set_ring_indicator(a.port, snapshot.ri, "ri" \in fail)
                 ELSE Out(a.port, POk(Unit), <<>>)
        IN  IF ~b.res.ok
            THEN Out(b.port, b.res, a.log \o b.log)
            ELSE
            LET c == IF can_set_carrier_detect(b.port)
                     THEN set_carrier_detect(b.port, snapshot.cd, "cd" \in fail)
                     ELSE Out(b.port, POk(Unit), <<>>)
            IN  Out(c.port, c.res, a.log \o b.log \o c.log)

\* impl SerialReflection for T: every read is followed by unwrap_or(false)
capture_control_lines(p, levels, fail) ==
    Out(p,
        POk([dsr |-> unwrap_or(read_input_line("dsr", levels, fail), FALSE),
             cts |-> unwrap_or(read_input_line("cts", levels, fail), FALSE),
             cd  |-> unwrap_or(read_input_line("cd", levels, fail), FALSE),
             ri  |-> unwrap_or(read_input_line("ri", levels, fail), FALSE),
             dtr |-> unwrap_or(read_data_terminal_ready(p), FALSE),
             rts |-> unwrap_or(read_request_to_send(p), FALSE)]),
        ReadsUpTo(Len(CaptureOrder), levels, fail))

Call(op, out) ==
    /\ pc = "port"
    /\ ops < MaxOps
    /\ dest' = out.port
    /\ ret' = [op |-> op, res |-> out.res]
    /\ log' = out.log
    /\ ops' = ops + 1
    /\ UNCHANGED <<port, lines, buffer, bytes_read, events, sink, last_lines,
                   short_reads, pc, result, config, script, cev, cout>>

\* the snapshots reflected: no line or one line asserted, or all or all but one
ReflectedLines ==
    { l \in PortControlLines :
        Cardinality({ f \in DOMAIN l : l[f] }) \in {0, 1, 5, 6} }

ReflectControlLines ==
    \E snapshot \in ReflectedLines, fail \in SUBSET OutputLines :
        /\ arg' = snapshot
        /\ Call("reflect_control_lines",
                IF dest.kind = "Basic"
                THEN reflector_reflect_control_lines(dest, snapshot, fail)
                ELSE reflect_control_lines(dest, snapshot, fail))

WriteRequestToSend ==
    \E level \in BOOLEAN, fails \in BOOLEAN :
        /\ Call("write_request_to_send", write_request_to_send(dest, level, fails))
        /\ UNCHANGED arg

WriteDataTerminalReady ==
    \E level \in BOOLEAN, fails \in BOOLEAN :
        /\ Call("write_data_terminal_ready", write_data_terminal_ready(dest, level, fails))
        /\ UNCHANGED arg

ReadRequestToSend ==
    /\ dest.kind = "Wrapper"
    /\ Call("read_request_to_send", Out(dest, read_request_to_send(dest), <<>>))
    /\ UNCHANGED arg

ReadDataTerminalReady ==
    /\ dest.kind = "Wrapper"
    /\ Call("read_data_terminal_ready", Out(dest, read_data_terminal_ready(dest), <<>>))
    /\ UNCHANGED arg

CaptureControlLines ==
    \E levels \in InputLevels, fail \in SUBSET InputLines :
        /\ Call("capture_control_lines",
                IF dest.kind = "Basic"
                THEN reflector_capture_control_lines(dest, levels, fail)
                ELSE capture_control_lines(dest, levels, fail))
        /\ UNCHANGED arg

\* io::ErrorKind values of a failing byte read or write
IoErrors == {"TimedOut", "BrokenPipe"}

\* Read::read, Write::write and Write::flush, handed to the inner port
IoOps == {"read", "write", "flush"}

IoCall ==
    \E op \in IoOps, res \in {POk(Unit)} \cup { PErr(e) : e \in IoErrors } :
        /\ Call(op, Out(dest, res, <<>>))
        /\ UNCHANGED arg

ReadLineOp(line) ==
    CASE line = "dsr" -> "read_data_set_ready"
      [] line = "cts" -> "read_clear_to_send"
      [] line = "cd"  -> "read_carrier_detect"
      [] line = "ri"  -> "read_ring_indicator"

\* read_clear_to_send and the like, handed to the inner port
ReadInputLine ==
    \E line \in InputLines, level \in BOOLEAN, fails \in BOOLEAN :
        /\ Call(ReadLineOp(line),
                Out(dest,
                    read_input_line(line, [l \in InputLines |-> level],
                                    IF fails THEN {line} ELSE {}),
                    <<Rd(line, level, ~fails)>>))
        /\ UNCHANGED arg

InitPort ==
    /\ dest \in Ports
    /\ ret = [op |-> "new", res |-> POk(Unit)]
    /\ arg = PortControlLinesNew
    /\ log = <<>>
    /\ ops = 0
    /\ pc = "port"
    /\ result = "none"
    /\ config = [encap_mode |-> "Raw", datalink |-> "USER0"]
    /\ cev = NoEvent
    /\ cout = NoOutput
    /\ script = <<>>
    /\ port = <<>>
    /\ lines = PortControlLinesNew
    /\ last_lines = PortControlLinesNew
    /\ buffer = <<>>
    /\ bytes_read = 0
    /\ short_reads = 0
    /\ events = <<>>
    /\ sink = <<>>

NextPort ==
    \/ ReflectControlLines
    \/ WriteRequestToSend
    \/ WriteDataTerminalReady
    \/ ReadRequestToSend
    \/ ReadDataTerminalReady
    \/ CaptureControlLines
    \/ IoCall
    \/ ReadInputLine

SpecPort == InitPort /\ [][NextPort]_vars

(***************************************************************************)
(* Reading a run: what the script asked for, what has been consumed.       *)
(* capture_packet returns an empty packet at every timeout that finds      *)
(* nothing accumulated; the events of a run are the non-empty packets.     *)
(***************************************************************************)
RECURSIVE Flatten(_)
Flatten(seqs) == IF seqs = <<>> THEN <<>> ELSE Head(seqs) \o Flatten(Tail(seqs))

NonEmpty(seqs) == SelectSeq(seqs, LAMBDA e : e # <<>>)

RECURSIVE DataLen(_)
DataLen(segs) ==
    IF segs = <<>> THEN 0 ELSE Head(segs).len + DataLen(Tail(segs))

\* bytes the reads have taken from the port so far
ConsumedBytes == DataLen(script) - DataLen(port)

\* the segments of the script the port has delivered completely
ConsumedSegs == SubSeq(script, 1, Len(script) - Len(port))

\* the bursts of segs that an idle gap has closed, in order; acc is the burst
\* under way.  Nothing of a script is delivered past a failing read.
RECURSIVE Bursts(_, _)
Bursts(segs, acc) ==
    IF segs = <<>> THEN <<>>
    ELSE LET h == Head(segs)
         IN  CASE h.kind = "data" -> Bursts(Tail(segs), acc \o Bytes(h.start, h.len))
               [] h.kind = "gap"  -> (IF acc = <<>> THEN <<>> ELSE <<acc>>)
                                        \o Bursts(Tail(segs), <<>>)
               [] h.kind = "err"  -> <<>>
               [] OTHER           -> Bursts(Tail(segs), acc)

\* the lengths of the bursts of segs, closed or not
RECURSIVE BurstLens(_, _)
BurstLens(segs, n) ==
    IF segs = <<>> THEN (IF n = 0 THEN <<>> ELSE <<n>>)
    ELSE LET h == Head(segs)
         IN  CASE h.kind = "data" -> BurstLens(Tail(segs), n + h.len)
               [] h.kind \in { "gap", "err" } ->
                     (IF n = 0 THEN <<>> ELSE <<n>>) \o BurstLens(Tail(segs), 0)
               [] OTHER -> BurstLens(Tail(segs), n)

Ceil(a, b) == (a + b - 1) \div b

\* the session's encapsulation has a codec
HasCodec(cfg) ==
    cfg.encap_mode = "Raw" \/ cfg.datalink \in UserDataLinks \cup { "RAW", "RTAC_SERIAL" }

\* the payload a sink packet carries, the encapsulation's header taken off
SinkPayload(p) ==
    IF config.encap_mode = "DatalinkType" /\ config.datalink = "RTAC_SERIAL"
    THEN SubSeq(p.data, 13, Len(p.data))
    ELSE p.data

SinkPayloads == [i \in 1..Len(sink) |-> SinkPayload(sink[i])]

(***************************************************************************)
(* C1. A burst shorter than MAX_PACKET_SIZE that an idle gap follows comes *)
(* out of capture_packet as exactly one event holding the burst byte for   *)
(* byte, however the reads split it: in a script all of whose bursts are   *)
(* shorter than MAX_PACKET_SIZE, the non-empty packets returned so far are *)
(* exactly the bursts whose closing gap has been read, one each, in order. *)
(***************************************************************************)
AllShort(segs) == \A i \in DOMAIN BurstLens(segs, 0) : BurstLens(segs, 0)[i] < MAX_PACKET_SIZE

C1_ShortBurstOneEvent ==
    AllShort(script) =>
        NonEmpty(events) = Bursts(ConsumedSegs, <<>>)

\* a burst of MAX_PACKET_SIZE - 1 bytes, read in several pieces, has come out whole
C1_Witness ==
    /\ AllShort(script)
    /\ short_reads > 0
    /\ events # <<>>
    /\ events[1] = Bytes(0, MAX_PACKET_SIZE - 1)

(***************************************************************************)
(* C2. A burst longer than MAX_PACKET_SIZE with no idle gap inside comes   *)
(* out as ceil(L / MAX_PACKET_SIZE) events of at most MAX_PACKET_SIZE      *)
(* bytes each, and the payloads joined in order are the burst: at every    *)
(* moment the packets returned, followed by the bytes held in the buffer,  *)
(* are exactly the bytes read from the port; a frame is returned as soon   *)
(* as it is full; and once the closing gap is read the count is the        *)
(* ceiling.                                                                *)
(***************************************************************************)
\* one burst longer than MAX_PACKET_SIZE, then the idle gap
IsLongBurst(segs) ==
    /\ Len(segs) = 2
    /\ segs[1].kind = "data"
    /\ segs[1].len > MAX_PACKET_SIZE
    /\ segs[2].kind = "gap"

C2_LongBurstFrames ==
    IsLongBurst(script) =>
        /\ \A i \in DOMAIN events : Len(events[i]) <= MAX_PACKET_SIZE
        /\ Flatten(events) \o Packet(buffer, bytes_read) = Bytes(0, ConsumedBytes)
        /\ Len(NonEmpty(events)) =
              IF port = <<>> THEN Ceil(DataLen(script), MAX_PACKET_SIZE)
              ELSE ConsumedBytes \div MAX_PACKET_SIZE

\* a burst of two frames and one byte, read in pieces, has come out as three events
C2_Witness ==
    /\ port = <<>>
    /\ DataLen(script) = 2 * MAX_PACKET_SIZE + 1
    /\ short_reads > 0
    /\ Len(NonEmpty(events)) = 3
    /\ Len(events[3]) = 1

(***************************************************************************)
(* C3. An event with an empty payload and the control lines of the last    *)
(* packet written is never encoded or written: the step in which           *)
(* capture_packet returns an empty packet (a timeout with nothing          *)
(* accumulated) leaves the sink as it was and the loop goes on reading.    *)
(***************************************************************************)
\* this step, capture_packet returned a packet to the loop
Returned == Len(events') = Len(events) + 1

ReturnedPacket == events'[Len(events')]

C3_EmptyEventDropped ==
    [][ Returned =>
            /\ is_insignificant(SerialEvent(DateTime(0, 0), ReturnedPacket, lines),
                                last_lines)
                  => (sink' = sink /\ pc' = "read")
            /\ ReturnedPacket = <<>> => (sink' = sink /\ pc' = "read") ]_vars

\* a timeout with an empty accumulator has happened after a packet was written
C3_Witness ==
    /\ sink # <<>>
    /\ events # <<>>
    /\ events[Len(events)] = <<>>
    /\ lines = last_lines
    /\ pc = "read"

(***************************************************************************)
(* C4. An event with an empty payload whose control lines differ from      *)
(* those of the last packet written is forwarded: the step in which        *)
(* capture_packet returns an empty packet while the lines have changed     *)
(* since the last write adds a packet to the sink.                         *)
(***************************************************************************)
C4_EmptyChangedForwarded ==
    [][ (Returned /\ ReturnedPacket = <<>> /\ sink # <<>> /\ lines # last_lines) =>
            Len(sink') = Len(sink) + 1 ]_vars

(***************************************************************************)
(* C5. Every event with a non-empty payload the loop obtains is encoded    *)
(* and written to the sink exactly once, in capture order: the sink holds  *)
(* one packet per non-empty event returned, the i-th packet being an       *)
(* encapsulation of the i-th such event.                                   *)
(***************************************************************************)
\* what the session's encapsulation may make of a payload
Encodings(payload) ==
    IF config.encap_mode = "Raw" THEN { payload }
    ELSE { get_encapsulated_data(SerialEvent(t, payload, cl), "serial",
                                 config.datalink).data :
              t \in Clock, cl \in { PortControlLinesNew } \cup SomeLines }

WrittenOnceInOrder ==
    /\ Len(sink) = Len(NonEmpty(events))
    /\ \A i \in DOMAIN sink :
          /\ sink[i].data \in Encodings(NonEmpty(events)[i])
          /\ SinkPayload(sink[i]) = NonEmpty(events)[i]

ABThenCDE == <<Data(0, 2), Gap, Data(2, 3), Gap, Gap>>

C6_BurstsEndToEnd ==
    /\ (AllShort(script) /\ port = <<>>) =>
          NonEmpty(events) = Bursts(script, <<>>)
    /\ (script = ABThenCDE /\ Len(port) <= 1) =>
          NonEmpty(events) = << <<65, 66>>, <<67, 68, 69>> >>
    /\ (script = ABThenCDE /\ Len(port) = 3) =>
          NonEmpty(events) = << <<65, 66>> >>

\* "AB", idle, "CDE", end has been read to its end, each burst in two reads
C6_Witness ==
    /\ script = ABThenCDE
    /\ port = <<>>
    /\ short_reads = 2
    /\ Len(events) = 3
    /\ events[3] = <<>>

(***************************************************************************)
(* C7. No packet capture_packet returns is longer than MAX_PACKET_SIZE,    *)
(* and no more than MAX_PACKET_SIZE bytes are ever held in the buffer.     *)
(***************************************************************************)
C7_PayloadBounded ==
    /\ bytes_read <= MAX_PACKET_SIZE
    /\ \A i \in DOMAIN events : Len(events[i]) <= MAX_PACKET_SIZE

\* a full frame has been returned, from a burst that goes on
C7_Witness ==
    /\ events # <<>>
    /\ Len(events[1]) = MAX_PACKET_SIZE
    /\ port # <<>>
    /\ Head(port).kind = "data"

(***************************************************************************)
(* C8. A read error other than a timeout is fatal: the step that meets it  *)
(* stops the loop, capture returns that very error, and nothing is written *)
(* to the sink in that step or after; a timeout never stops the loop and   *)
(* is never returned as an error.                                          *)
(***************************************************************************)
C8_ErrorFatal ==
    [][ /\ (pc = "read" /\ port # <<>> /\ Head(port).kind = "err") =>
              /\ pc' = "stopped"
              /\ result' = Head(port).error
              /\ sink' = sink
              /\ events' = events
        /\ (pc = "read" /\ port # <<>> /\ Head(port).kind = "gap") =>
              /\ pc' # "stopped"
              /\ result' = "none"
        /\ pc = "stopped" => (pc' = "stopped" /\ sink' = sink /\ result' = result) ]_vars

\* the loop has stopped on a BrokenPipe after writing a packet, with input left
C8_Witness ==
    /\ pc = "stopped"
    /\ result = "BrokenPipe"
    /\ sink # <<>>
    /\ port # <<>>

(***************************************************************************)
(* C9. When a fatal port error stops the loop, the bytes accumulated       *)
(* before the failing read have been written to the sink: once stopped,    *)
(* the payloads in the sink are all the bytes read from the port.          *)
(***************************************************************************)
C9_BufferedDataFlushed ==
    (pc = "stopped" /\ HasCodec(config)) =>
        Flatten(SinkPayloads) = Bytes(0, ConsumedBytes)

(***************************************************************************)
(* C10. The RTAC_SERIAL encapsulation of an event is 12 header bytes       *)
(* followed by the payload unchanged: the length is 12 more than the       *)
(* payload's, byte 8 is 0x01, bytes 10 and 11 are 0x00 and bytes 12 on are *)
(* the payload (bytes counted from 0).                                     *)
(***************************************************************************)
C10_RtacLayout ==
    (pc = "encoded" /\ config.datalink = "RTAC_SERIAL") =>
        /\ cout.ok
        /\ Len(cout.data) = 12 + Len(cev.data)
        /\ cout.data[9] = 1
        /\ cout.data[11] = 0
        /\ cout.data[12] = 0
        /\ SubSeq(cout.data, 13, Len(cout.data)) = cev.data

\* an event with two payload bytes and CTS up has been encoded as RTAC_SERIAL
C10_Witness ==
    /\ pc = "encoded"
    /\ config.datalink = "RTAC_SERIAL"
    /\ cev.data = <<0, 255>>
    /\ cev.control_lines.cts
    /\ Len(cout.data) = 14

(***************************************************************************)
(* Reading an encoded RTAC_SERIAL header back.  A 32-bit little-endian     *)
(* field is read as its two 16-bit halves.                                 *)
(***************************************************************************)
U32(x) == [lo |-> x % 65536, hi |-> x \div 65536]

from_le_bytes(b) == [lo |-> b[1] + 256 * b[2], hi |-> b[3] + 256 * b[4]]

Bit(b, k) == (b \div (2 ^ k)) % 2 = 1

decode_flags(b) ==
    [cts |-> Bit(b, 0), cd |-> Bit(b, 1), dsr |-> Bit(b, 2),
     rts |-> Bit(b, 3), dtr |-> Bit(b, 4), ri |-> Bit(b, 5)]

EncodedRtac == pc = "encoded" /\ config.datalink = "RTAC_SERIAL"

(***************************************************************************)
(* C11. In an RTAC_SERIAL header, bytes 4 to 7 hold the microsecond within *)
(* the second of the event's timestamp (0 to 999999) as a little-endian    *)
(* 32-bit value, whatever the timestamp.                                   *)
(***************************************************************************)
C11_MicrosOfSecond ==
    EncodedRtac =>
        /\ from_le_bytes(SubSeq(cout.data, 5, 8)) = U32(cev.timestamp.usec)
        /\ SubSeq(cout.data, 5, 8) = to_le_bytes(cev.timestamp.usec, 4)

(***************************************************************************)
(* C12. An RTAC_SERIAL header read back gives the event's values: bytes 0  *)
(* to 3 are the timestamp's whole seconds, bytes 4 to 7 its microsecond    *)
(* component, and byte 9 decodes to the same six control-line values.      *)
(***************************************************************************)
C12_RoundTrip ==
    EncodedRtac =>
        /\ from_le_bytes(SubSeq(cout.data, 1, 4)) = U32(cev.timestamp.secs)
        /\ from_le_bytes(SubSeq(cout.data, 5, 8)) = U32(cev.timestamp.usec)
        /\ decode_flags(cout.data[10]) = cev.control_lines

\* the part of the round trip that does not involve bytes 4 to 7
C12_SecondsAndLinesRoundTrip ==
    EncodedRtac =>
        /\ from_le_bytes(SubSeq(cout.data, 1, 4)) = U32(cev.timestamp.secs)
        /\ decode_flags(cout.data[10]) = cev.control_lines

(***************************************************************************)
(* C13. Byte 9 of an RTAC_SERIAL header is a bitmask of the control lines: *)
(* bit 0 CTS, bit 1 CD, bit 2 DSR, bit 3 RTS, bit 4 DTR, bit 5 RI, bits 6  *)
(* and 7 zero, for each of the 64 line states; CTS and RTS alone give      *)
(* 0x09; two different line states never give the same byte.               *)
(***************************************************************************)
C13_FlagsBitmask ==
    EncodedRtac =>
        LET b  == cout.data[10]
            cl == cev.control_lines
        IN  /\ Bit(b, 0) = cl.cts
            /\ Bit(b, 1) = cl.cd
            /\ Bit(b, 2) = cl.dsr
            /\ Bit(b, 3) = cl.rts
            /\ Bit(b, 4) = cl.dtr
            /\ Bit(b, 5) = cl.ri
            /\ b \in 0..63
            /\ ({ l \in DOMAIN cl : cl[l] } = {"cts", "rts"} => b = 9)
            /\ \A other \in PortControlLines \ {cl} :
                  rtac_encapsulate(SerialEvent(cev.timestamp, cev.data, other),
                                   "serial")[10] # b

\* an event with exactly CTS and RTS asserted has been encoded, byte 9 is 0x09
C13_Witness ==
    /\ EncodedRtac
    /\ cev.control_lines.cts /\ cev.control_lines.rts
    /\ ~cev.control_lines.cd /\ ~cev.control_lines.dsr
    /\ ~cev.control_lines.dtr /\ ~cev.control_lines.ri
    /\ cout.data[10] = 9

(***************************************************************************)
(* C14. For each of USER0..USER15 and RAW the encapsulation succeeds and   *)
(* its output is exactly the event's payload, whatever the timestamp and   *)
(* the control lines.                                                      *)
(***************************************************************************)
C14_RawPassthrough ==
    (pc = "encoded" /\ config.datalink \in UserDataLinks \cup {"RAW"}) =>
        /\ cout.ok
        /\ cout.data = cev.data

\* a two-byte payload stamped late, with DTR and RI up, has gone through USER7
C14_Witness ==
    /\ pc = "encoded"
    /\ config.datalink = "USER7"
    /\ cev.data = <<255, 0>>
    /\ cev.timestamp.secs > 0
    /\ cev.control_lines.dtr /\ cev.control_lines.ri
    /\ cout.data = <<255, 0>>

(***************************************************************************)
(* C15. Encapsulation for a link type without a codec fails with an error  *)
(* that says the type is unsupported and names it, and gives no output     *)
(* bytes; for a link type with a codec it never fails.  The outcome        *)
(* depends on the link type of the call alone.                             *)
(***************************************************************************)
C15_UnsupportedRejected ==
    pc = "encoded" =>
        IF config.datalink \in UserDataLinks \cup {"RAW", "RTAC_SERIAL"}
        THEN /\ cout.ok
             /\ cout.err = <<>>
        ELSE /\ ~cout.ok
             /\ cout.err = <<"Unsupported datalink type: ", config.datalink>>
             /\ cout.data = <<>>

\* an event with payload has been refused for ETHERNET
C15_Witness ==
    /\ pc = "encoded"
    /\ config.datalink = "ETHERNET"
    /\ cev.data # <<>>
    /\ ~cout.ok
    /\ cout.err[2] = "ETHERNET"

(***************************************************************************)
(* Reflection claims.  A port drives its RTS and DTR pins; across the      *)
(* null-modem wiring the reflection emulates, the device on the other side *)
(* sees the RTS pin as its CTS and the DTR pin as its DSR.  The pins hold  *)
(* the level of the last write the driver accepted.                        *)
(***************************************************************************)
Reflected == pc = "port" /\ ret.op = "reflect_control_lines"

Attempted(line) == \E i \in DOMAIN log : log[i].line = line

Wrote(line) == \E i \in DOMAIN log : log[i].line = line /\ log[i].ok

Refused(line) == \E i \in DOMAIN log : log[i].line = line /\ ~log[i].ok

DestinationCts == dest.rts

DestinationDsr == dest.dtr

(***************************************************************************)
(* C16 as stated. Reflecting a source snapshot drives the destination's    *)
(* CTS with the snapshot's RTS value and the destination's DSR with the    *)
(* snapshot's DTR value.                                                   *)
(***************************************************************************)
C16_RtsDtrMirrored ==
    (Reflected /\ ret.res.ok) =>
        /\ DestinationCts = Some(arg.rts)
        /\ DestinationDsr = Some(arg.dtr)

(***************************************************************************)
(* C16, amended. reflect_control_lines writes the destination's DTR pin    *)
(* with the snapshot's dsr value and then its RTS pin with the snapshot's  *)
(* cts value: each pin the driver accepted a write for holds that value,   *)
(* and a call that returns Ok has written both.                            *)
(***************************************************************************)
C16_CtsDsrReflected ==
    Reflected =>
        /\ Wrote("dtr") => dest.dtr = Some(arg.dsr)
        /\ Wrote("rts") => dest.rts = Some(arg.cts)
        /\ ret.res.ok => Wrote("dtr") /\ Wrote("rts")
        /\ \A i \in DOMAIN log :
              /\ log[i].line = "dtr" => log[i].level = arg.dsr
              /\ log[i].line = "rts" => log[i].level = arg.cts

\* a snapshot with only CTS asserted has been reflected: RTS pin high, DTR pin low
C16_Witness ==
    /\ Reflected
    /\ ret.res.ok
    /\ arg.cts /\ ~arg.dsr /\ ~arg.rts /\ ~arg.dtr
    /\ dest.rts = Some(TRUE)
    /\ dest.dtr = Some(FALSE)

(***************************************************************************)
(* C17. reflect_control_lines drives RI exactly when the destination has a *)
(* GPIO output for RI, and CD exactly when it has one for CD; without the  *)
(* GPIO the line is never written and the call still succeeds when the     *)
(* primary lines do.  Stated for the calls whose primary writes succeed.   *)
(***************************************************************************)
C17_OptionalLinesByGpio ==
    (Reflected /\ Wrote("dtr") /\ Wrote("rts")) =>
        /\ Attempted("ri") <=> (dest.kind = "Wrapper" /\ can_set_ring_indicator(dest))
        /\ Attempted("cd") <=> (dest.kind = "Wrapper" /\ can_set_carrier_detect(dest))
        /\ (dest.ri_out_gpio = None /\ dest.cd_out_gpio = None) => ret.res.ok

(***************************************************************************)
(* C18. A failure to drive RI or CD neither aborts the call nor changes    *)
(* its result: when both primary writes succeed the call returns Ok, and a *)
(* destination with a CD output has its CD write attempted even when the   *)
(* RI write failed.                                                        *)
(***************************************************************************)
C18_OptionalFailureIgnored ==
    (Reflected /\ Wrote("dtr") /\ Wrote("rts")) =>
        /\ ret.res.ok
        /\ can_set_carrier_detect(dest) => Attempted("cd")

(***************************************************************************)
(* C19. A primary write (DTR or RTS) the driver refuses is returned as an  *)
(* error: reflect_control_lines never returns Ok when one of them failed.  *)
(***************************************************************************)
C19_PrimaryFailureReturned ==
    Reflected =>
        ((Refused("dtr") \/ Refused("rts")) => ~ret.res.ok)

\* the DTR write was accepted, the RTS write refused, and the call returned Err
C19_Witness ==
    /\ Reflected
    /\ Wrote("dtr")
    /\ Refused("rts")
    /\ ~ret.res.ok

\* the DTR write was refused on a wrapper with both GPIO outputs: Err
C19_WitnessDtr ==
    /\ Reflected
    /\ dest.kind = "Wrapper"
    /\ can_set_ring_indicator(dest)
    /\ Refused("dtr")
    /\ ~ret.res.ok

(***************************************************************************)
(* C20. On a SerialPortWrapper, read_request_to_send returns the level of  *)
(* the most recent successful write_request_to_send, and                   *)
(* read_data_terminal_ready that of the most recent successful             *)
(* write_data_terminal_ready, whatever was written to the other line.      *)
(* (dest.rts and dest.dtr hold the level of the last accepted write.)      *)
(***************************************************************************)
C20_ReadsOwnLine ==
    (pc = "port" /\ dest.kind = "Wrapper") =>
        /\ (ret.op = "read_request_to_send" /\ dest.rts # None) =>
               (ret.res.ok /\ ret.res.value = dest.rts[1])
        /\ (ret.op = "read_data_terminal_ready" /\ dest.dtr # None) =>
               (ret.res.ok /\ ret.res.value = dest.dtr[1])

Captured == pc = "port" /\ ret.op = "capture_control_lines"

(***************************************************************************)
(* C21. capture_control_lines always returns a snapshot of all six lines   *)
(* and never an error: a line whose read fails, and RTS or DTR before any  *)
(* value was commanded, is reported false; a line that was read is         *)
(* reported at its level.                                                  *)
(***************************************************************************)
C21_UnreadableLinesFalse ==
    Captured =>
        /\ ret.res.ok
        /\ DOMAIN ret.res.value = {"dsr", "cts", "cd", "ri", "dtr", "rts"}
        /\ \A i \in DOMAIN log :
              ret.res.value[log[i].line] = (log[i].ok /\ log[i].level)
        /\ (dest.rts = None /\ dest.dtr = None) =>
              (~ret.res.value.rts /\ ~ret.res.value.dtr)

Tracked(p) == <<p.last_set_rts, p.last_set_dtr>>

(***************************************************************************)
(* C26. On a SerialPortWrapper a refused write_request_to_send or          *)
(* write_data_terminal_ready returns the error and leaves both recorded    *)
(* levels as they were; an accepted one records its level for the line     *)
(* written and leaves the other; byte reads, writes and flushes and the    *)
(* reads of CTS, DSR, CD and RI change neither.                            *)
(***************************************************************************)
C26_TrackedLevelsFrame ==
    [][ (pc = "port" /\ dest.kind = "Wrapper" /\ ops' = ops + 1) =>
          LET op == ret'.op
          IN  /\ (op \in {"write_request_to_send", "write_data_terminal_ready"}
                  /\ ~log'[1].ok) =>
                     (~ret'.res.ok /\ Tracked(dest') = Tracked(dest))
              /\ (op = "write_request_to_send" /\ log'[1].ok) =>
                     /\ ret'.res.ok
                     /\ dest'.last_set_rts = Some(log'[1].level)
                     /\ dest'.last_set_dtr = dest.last_set_dtr
              /\ (op = "write_data_terminal_ready" /\ log'[1].ok) =>
                     /\ ret'.res.ok
                     /\ dest'.last_set_dtr = Some(log'[1].level)
                     /\ dest'.last_set_rts = dest.last_set_rts
              /\ (op \in IoOps \cup { ReadLineOp(l) : l \in InputLines }) =>
                     Tracked(dest') = Tracked(dest)
      ]_vars

\* RTS was commanded high, then a write of low was refused: high is still recorded
C26_Witness ==
    /\ pc = "port"
    /\ dest.kind = "Wrapper"
    /\ ret.op = "write_request_to_send"
    /\ ~ret.res.ok
    /\ log[1].level = FALSE
    /\ dest.last_set_rts = Some(TRUE)

(***************************************************************************)
(* C22. The link type in the sink's header is the encapsulation applied to *)
(* every packet of the session: each packet in the sink is what the        *)
(* header's link type makes of the event it carries, for every configured  *)
(* link type with or without force-raw.                                    *)
(***************************************************************************)
C22_HeaderMatchesPackets ==
    \A i \in DOMAIN sink :
        i <= Len(NonEmpty(events)) /\
        \E t \in Clock, cl \in { PortControlLinesNew } \cup SomeLines :
            LET r == get_encapsulated_data(SerialEvent(t, NonEmpty(events)[i], cl),
                                           "serial", PcapHeader(config).datalink)
            IN  r.ok /\ r.data = sink[i].data

\* the same for the sessions without force-raw
C22_HeaderMatchesWithoutForceRaw ==
    config.encap_mode = "DatalinkType" => C22_HeaderMatchesPackets

(***************************************************************************)
(* C24. With a link type that has no codec and without force-raw, the loop *)
(* fails at the first event with a payload and not before: nothing is ever *)
(* written to the sink, the loop has failed exactly when a non-empty event *)
(* has been returned, and the empty events before it leave it running.     *)
(***************************************************************************)
C24_NoCodecFailsAtFirstEvent ==
    ~HasCodec(config) =>
        /\ sink = <<>>
        /\ pc = "panicked" <=> NonEmpty(events) # <<>>
        /\ Len(NonEmpty(events)) <= 1
        /\ NonEmpty(events) # <<>> => events[Len(events)] # <<>>

\* under ETHERNET an empty event went by, then the first payload stopped the loop
C24_Witness ==
    /\ config = [encap_mode |-> "DatalinkType", datalink |-> "ETHERNET"]
    /\ pc = "panicked"
    /\ Len(events) >= 2
    /\ events[1] = <<>>
    /\ events[Len(events)] # <<>>
    /\ sink = <<>>

(***************************************************************************)
(* C25. Every packet handed to the sink is no longer than the snaplen of   *)
(* the sink's header, and its orig_len is the length of its data, for      *)
(* every encapsulation and every payload up to MAX_PACKET_SIZE bytes.      *)
(***************************************************************************)
C25_PacketWithinSnaplen ==
    \A i \in DOMAIN sink :
        /\ Len(sink[i].data) <= PcapHeader(config).snaplen
        /\ sink[i].orig_len = Len(sink[i].data)

\* this step, capture_packet made one read on the port
ReadMade ==
    /\ pc = "read"
    /\ port # <<>>
    /\ Head(port).kind \in {"data", "zero", "gap", "err"}
    /\ port' # port

\* this step, the call of capture_packet in progress ended
CallEnded == Returned \/ pc' # "read"

(***************************************************************************)
(* C23. Every call of capture_packet returns, whatever the reads give,     *)
(* reads of zero bytes included.  The reads of a call can be continued     *)
(* without end with the result the last one gave, so the call returns on   *)
(* every sequence of read results exactly when each read either ends the   *)
(* call or adds to bytes_read, which MAX_PACKET_SIZE bounds.               *)
(***************************************************************************)
C23_EveryReadEndsOrAdds ==
    [][ ReadMade => (CallEnded \/ bytes_read' > bytes_read) ]_vars

\* the part of C23 about what ends a call: a timeout, an error, a full buffer
C23_TimeoutErrorFullEndCall ==
    [][ ReadMade =>
          /\ Head(port).kind \in {"gap", "err"} => CallEnded
          /\ (Head(port).kind = "data" /\ ~CallEnded) => bytes_read' < MAX_PACKET_SIZE
          /\ bytes_read < MAX_PACKET_SIZE ]_vars

====
